---------------------------- MODULE Spec2Model ----------------------------
(***************************************************************************)
(* The message orchestration of MigosiDesigns AI Mentor (src/App.tsx):     *)
(* the App component's state (messages, input, isLoading), its mount       *)
(* effect, the input's onChange handler and sendMessage, whose body is     *)
(* split at its single await into the synchronous part (SendMessage) and   *)
(* the continuation that runs when the provider call settles (Settle).     *)
(*                                                                         *)
(* Strings are sequences of one-character strings, so that trim,           *)
(* startsWith, substring, toString and concatenation are computed.         *)
(* A JavaScript value that may be undefined is a sequence of length at     *)
(* most one: <<>> is undefined, <<v>> is the value v.                       *)
(*                                                                         *)
(* The handlers are modelled as callable in every state after mount: the   *)
(* disabled attributes of the input and the button (App.tsx:194,198) are   *)
(* presentation, the guard of sendMessage (App.tsx:31) is what decides.    *)
(* The client construction at App.tsx:44 is taken to succeed.              *)
(***************************************************************************)
EXTENDS Integers, Sequences, FiniteSets

(***************************************************************************)
(* Bounds of the model.                                                    *)
(***************************************************************************)
\* accepted submissions per behaviour
MaxSubmits == 2
\* accepted submissions per behaviour of InputSpec and of NormSpec
MaxInputSubmits == 1
MaxNormSubmits == 1
\* Date.now() ranges over ClockStart .. ClockStart + MaxClock
ClockStart == 9
MaxClock == 1
\* content parts in an image response
MaxParts == 2
\* grounding chunks in a text response
MaxChunks == 2

(***************************************************************************)
(* String literals of the source.                                          *)
(***************************************************************************)
\* U+0060, which a TLA+ string cannot hold
Backtick == "backtick"

\* App.tsx:25  'initial-message'
GreetingId ==
    <<"i", "n", "i", "t", "i", "a", "l", "-", "m", "e", "s", "s", "a", "g",
      "e">>

\* App.tsx:24  the greeting text
GreetingText ==
    <<"H", "e", "l", "l", "o", "!", " ", "I", "'", "m", " ", "y", "o", "u",
      "r", " ", "M", "i", "g", "o", "s", "i", "D", "e", "s", "i", "g", "n",
      "s", " ", "A", "I", " ", "M", "e", "n", "t", "o", "r", ".", " ", "H",
      "o", "w", " ", "c", "a", "n", " ", "I", " ", "h", "e", "l", "p", " ",
      "y", "o", "u", " ", "w", "i", "t", "h", " ", "y", "o", "u", "r", " ",
      "g", "r", "a", "p", "h", "i", "c", " ", "d", "e", "s", "i", "g", "n",
      " ", "j", "o", "u", "r", "n", "e", "y", " ", "t", "o", "d", "a", "y",
      "?", " ", "Y", "o", "u", " ", "c", "a", "n", " ", "a", "l", "s", "o",
      " ", "a", "s", "k", " ", "m", "e", " ", "t", "o", " ", "c", "r", "e",
      "a", "t", "e", " ", "a", "n", " ", "i", "m", "a", "g", "e", " ", "b",
      "y", " ", "t", "y", "p", "i", "n", "g", " ", Backtick, "/", "i", "m", "a",
      "g", "i", "n", "e", Backtick, " ", "f", "o", "l", "l", "o", "w", "e", "d",
      " ", "b", "y", " ", "a", " ", "p", "r", "o", "m", "p", "t", ".">>

\* App.tsx:45,48  '/imagine '
ImagineCommand ==
    <<"/", "i", "m", "a", "g", "i", "n", "e", " ">>

\* App.tsx:63  the data-URI prefix of the template literal
DataUriPrefix ==
    <<"d", "a", "t", "a", ":", "i", "m", "a", "g", "e", "/", "p", "n", "g",
      ";", "b", "a", "s", "e", "6", "4", ",">>

\* App.tsx:70  the caption template before ${prompt}
CaptionPrefix ==
    <<"H", "e", "r", "e", " ", "i", "s", " ", "m", "y", " ", "t", "a", "k",
      "e", " ", "o", "n", ":", " ", "\"">>

\* App.tsx:70  the caption template after ${prompt}
CaptionSuffix ==
    <<"\"">>

\* App.tsx:71,102  '-model'
ModelSuffix ==
    <<"-", "m", "o", "d", "e", "l">>

\* App.tsx:113  '-error'
ErrorSuffix ==
    <<"-", "e", "r", "r", "o", "r">>

\* App.tsx:112  the fallback text
ErrorText ==
    <<"S", "o", "r", "r", "y", ",", " ", "I", " ", "e", "n", "c", "o", "u",
      "n", "t", "e", "r", "e", "d", " ", "a", "n", " ", "e", "r", "r", "o",
      "r", ".", " ", "P", "l", "e", "a", "s", "e", " ", "t", "r", "y", " ",
      "a", "g", "a", "i", "n", ".">>

\* App.tsx:82  the template literal before ${currentInput}
Persona ==
    <<"Y", "o", "u", " ", "a", "r", "e", " ", "M", "i", "g", "o", "s", "i",
      "D", "e", "s", "i", "g", "n", "s", ",", " ", "a", " ", "f", "r", "i",
      "e", "n", "d", "l", "y", " ", "a", "n", "d", " ", "e", "x", "p", "e",
      "r", "t", " ", "g", "r", "a", "p", "h", "i", "c", " ", "d", "e", "s",
      "i", "g", "n", " ", "m", "e", "n", "t", "o", "r", ".", " ", "Y", "o",
      "u", "r", " ", "g", "o", "a", "l", " ", "i", "s", " ", "t", "o", " ",
      "g", "u", "i", "d", "e", " ", "a", "n", "d", " ", "a", "s", "s", "i",
      "s", "t", " ", "u", "s", "e", "r", "s", " ", "w", "i", "t", "h", " ",
      "t", "h", "e", "i", "r", " ", "g", "r", "a", "p", "h", "i", "c", " ",
      "d", "e", "s", "i", "g", "n", " ", "q", "u", "e", "s", "t", "i", "o",
      "n", "s", ".", " ", "P", "r", "o", "v", "i", "d", "e", " ", "e", "n",
      "c", "o", "u", "r", "a", "g", "i", "n", "g", ",", " ", "i", "n", "s",
      "i", "g", "h", "t", "f", "u", "l", ",", " ", "a", "n", "d", " ", "p",
      "r", "a", "c", "t", "i", "c", "a", "l", " ", "a", "d", "v", "i", "c",
      "e", ".", " ", "U", "s", "e", "r", " ", "p", "r", "o", "m", "p", "t",
      ":", " ">>

(***************************************************************************)
(* Optional values and JavaScript string primitives.                       *)
(***************************************************************************)
None == <<>>

Some(v) == <<v>>

IsSome(o) == Len(o) = 1

Value(o) == o[1]

\* the sequences over S of length at most n
SeqsUpTo(S, n) == UNION {[1..k -> S] : k \in 0..n}

\* white space removed by String.prototype.trim
IsWhitespace(c) == c \in {" ", "\t", "\n"}

RECURSIVE TrimStart(_)
TrimStart(s) ==
    IF s # <<>> /\ IsWhitespace(Head(s)) THEN TrimStart(Tail(s)) ELSE s

RECURSIVE TrimEnd(_)
TrimEnd(s) ==
    IF s # <<>> /\ IsWhitespace(s[Len(s)])
    THEN TrimEnd(SubSeq(s, 1, Len(s) - 1))
    ELSE s

\* String.prototype.trim
Trim(s) == TrimEnd(TrimStart(s))

\* String.prototype.startsWith
StartsWith(s, p) == Len(s) >= Len(p) /\ SubSeq(s, 1, Len(p)) = p

\* String.prototype.substring(n)
Substring(s, n) == SubSeq(s, n + 1, Len(s))

Digit(d) == <<"0", "1", "2", "3", "4", "5", "6", "7", "8", "9">>[d + 1]

\* Number.prototype.toString of a non-negative integer
RECURSIVE ToString(_)
ToString(n) ==
    IF n < 10 THEN <<Digit(n)>> ELSE ToString(n \div 10) \o <<Digit(n % 10)>>

\* truthiness of a string: '' is falsy
Truthy(s) == s # <<>>

\* truthiness of a string that may be undefined
TruthyOpt(o) == IsSome(o) /\ Truthy(Value(o))

(***************************************************************************)
(* Message model (types.ts).                                               *)
(***************************************************************************)
USER == "user"

MODEL == "model"

\* one conversation turn; references and imageUrl are optional
Message(author, text, id, references, imageUrl) ==
    [author |-> author, text |-> text, id |-> id,
     references |-> references, imageUrl |-> imageUrl]

\* the greeting seeded by the mount effect
Greeting == Message(MODEL, Some(GreetingText), GreetingId, None, None)

(***************************************************************************)
(* sendMessage, synchronous part.                                          *)
(***************************************************************************)
\* the early return without its test of the input
CanSend_OnlyLoadingTest(inp, loading) == ~loading

\* the early return without its isLoading test
CanSend_NoLoadingTest(inp, loading) == Truthy(Trim(inp))

\* the early return testing input instead of input.trim()
CanSend_NoTrim(inp, loading) == Truthy(inp) /\ ~loading

\* the negation of the early return  if (!input.trim() || isLoading) return
CanSend(inp, loading) == Truthy(Trim(inp)) /\ ~loading

\* const userMessage = {author: USER, text: input, id: Date.now().toString()}
UserMessage(inp, t) == Message(USER, Some(inp), ToString(t), None, None)

\* the updater adding at the front
AppendMessage_Prepend(prev, m) == <<m>> \o prev

\* the updater without the spread of prev
AppendMessage_NoSpread(prev, m) == <<m>>

\* the updater  (prev) => [...prev, m]
AppendMessage(prev, m) == Append(prev, m)

\* the prefix test without the separating space
IsImagePrompt_NoSpace(currentInput) ==
    StartsWith(Trim(currentInput),
               SubSeq(ImagineCommand, 1, Len(ImagineCommand) - 1))

\* currentInput.trim().startsWith('/imagine ')
IsImagePrompt(currentInput) == StartsWith(Trim(currentInput), ImagineCommand)

\* the prefix cut from the input as typed
ImagePrompt_NoTrim(currentInput) == Substring(currentInput, Len(ImagineCommand))

\* currentInput.trim().substring('/imagine '.length)
ImagePrompt(currentInput) == Substring(Trim(currentInput), Len(ImagineCommand))

\* the contents of the text request: the persona followed by currentInput
TextContents(currentInput) == Persona \o currentInput

\* the generateContent call the input leads to
Request(currentInput) ==
    IF IsImagePrompt(currentInput)
    THEN [mode |-> "IMAGE", model |-> "gemini-2.5-flash-image",
          contents |-> ImagePrompt(currentInput)]
    ELSE [mode |-> "TEXT", model |-> "gemini-2.5-flash",
          contents |-> TextContents(currentInput)]

\* both branches calling the provider (the else of the image test lost)
Calls_BothBranches(currentInput) ==
    <<[mode |-> "IMAGE", model |-> "gemini-2.5-flash-image",
       contents |-> ImagePrompt(currentInput)],
      [mode |-> "TEXT", model |-> "gemini-2.5-flash",
       contents |-> TextContents(currentInput)]>>

\* the generateContent calls the try block makes for an input: the one of
\* the branch taken
Calls(currentInput) == <<Request(currentInput)>>

\* the input kept after an accepted submit
ClearInput_Forgot(inp) == inp

\* setInput('')
ClearInput(inp) == <<>>

\* the flag not raised
StartLoading_Forgot(loading) == loading

\* setIsLoading(true)
StartLoading(loading) == TRUE

(***************************************************************************)
(* Provider responses.  A response is                                      *)
(*   throws          the call rejected                                     *)
(*   parts           candidates[0].content.parts, undefined when the       *)
(*                   path to it is missing                                 *)
(*   text            response.text                                         *)
(*   groundingChunks candidates?.[0]?.groundingMetadata?.groundingChunks   *)
(***************************************************************************)
Response(throws, parts, text, chunks) ==
    [throws |-> throws, parts |-> parts, text |-> text,
     groundingChunks |-> chunks]

Thrown == Response(TRUE, None, None, None)

Payloads == {<<"Q", "Q">>, <<"Q", "g">>}

\* a content part: with inline data, or without (a text part)
Inline(p) == [inlineData |-> Some(p)]

TextPart == [inlineData |-> None]

PartKinds == {TextPart} \cup {Inline(p) : p \in Payloads}

Uris == {<<"u">>, <<"v">>}

\* a grounding chunk: without web, or with a web whose uri and title are
\* undefined, empty or set
ChunkKinds ==
    {[web |-> None],
     [web |-> Some([uri |-> None, title |-> Some(<<"t">>)])],
     [web |-> Some([uri |-> Some(<<"u">>), title |-> Some(<<>>)])]}
    \cup {[web |-> Some([uri |-> Some(u), title |-> Some(<<"t">>)])] : u \in Uris}

\* the responses to an image request: a few of them, and all of them
BasicImageResponses ==
    {Thrown,
     Response(FALSE, Some(<<TextPart>>), None, None),
     Response(FALSE, Some(<<Inline(<<"Q", "Q">>)>>), None, None)}

RichImageResponses ==
    {Thrown, Response(FALSE, None, None, None)}
    \cup {Response(FALSE, Some(ps), None, None) : ps \in SeqsUpTo(PartKinds, MaxParts)}

Texts == {None, Some(<<"o", "k">>)}

\* the responses to a text request: a few of them, and all of them
BasicTextResponses ==
    {Thrown} \cup {Response(FALSE, None, t, None) : t \in Texts}

RichTextResponses ==
    {Thrown}
    \cup {Response(FALSE, None, t, c) :
            t \in Texts, c \in {None} \cup {Some(cs) : cs \in SeqsUpTo(ChunkKinds, MaxChunks)}}

ResponsesTo(req) ==
    IF req.mode = "IMAGE" THEN BasicImageResponses ELSE BasicTextResponses

RichResponsesTo(req) ==
    IF req.mode = "IMAGE" THEN RichImageResponses ELSE RichTextResponses

(***************************************************************************)
(* sendMessage, after the await.                                           *)
(***************************************************************************)
\* the loop  for (const part of parts) if (part.inlineData) imageUrl = ...
\* from part i on, with imageUrl = acc so far
RECURSIVE ScanParts(_, _, _)
ScanParts(parts, i, acc) ==
    IF i > Len(parts) THEN acc
    ELSE ScanParts(parts, i + 1,
                   IF IsSome(parts[i].inlineData)
                   THEN DataUriPrefix \o Value(parts[i].inlineData)
                   ELSE acc)

\* let imageUrl = ''; followed by the loop
ImageUrlOf(parts) == ScanParts(parts, 1, <<>>)

\* the image message built with a references field, as the text one is
ImageMessage_WithReferences(prompt, imageUrl, t) ==
    Message(MODEL, Some(CaptionPrefix \o prompt \o CaptionSuffix),
            ToString(t) \o ModelSuffix, Some(<<>>), Some(imageUrl))

\* the modelMessage of the image branch
ImageMessage(prompt, imageUrl, t) ==
    Message(MODEL, Some(CaptionPrefix \o prompt \o CaptionSuffix),
            ToString(t) \o ModelSuffix, None, Some(imageUrl))

\* chunk => ({uri: chunk.web?.uri, title: chunk.web?.title})
ChunkToRef(chunk) ==
    IF IsSome(chunk.web)
    THEN [uri |-> Value(chunk.web).uri, title |-> Value(chunk.web).title]
    ELSE [uri |-> None, title |-> None]

\* the filter testing the uri only
KeepRef_UriOnly(ref) == TruthyOpt(ref.uri)

\* ref => ref.uri && ref.title
KeepRef(ref) == TruthyOpt(ref.uri) /\ TruthyOpt(ref.title)

\* Array.prototype.filter with KeepRef over the mapped chunks
RECURSIVE FilterRefs(_)
FilterRefs(refs) ==
    IF refs = <<>> THEN <<>>
    ELSE IF KeepRef(Head(refs))
         THEN <<Head(refs)>> \o FilterRefs(Tail(refs))
         ELSE FilterRefs(Tail(refs))

\* a missing chunk list treated as an empty one
References_EmptyWhenAbsent(groundingChunks) ==
    IF IsSome(groundingChunks)
    THEN Some(FilterRefs([i \in 1..Len(Value(groundingChunks)) |->
                            ChunkToRef(Value(groundingChunks)[i])]))
    ELSE Some(<<>>)

\* groundingChunks?.map(...).filter(...)
References(groundingChunks) ==
    IF IsSome(groundingChunks)
    THEN Some(FilterRefs([i \in 1..Len(Value(groundingChunks)) |->
                            ChunkToRef(Value(groundingChunks)[i])]))
    ELSE None

\* the modelMessage of the text branch
TextMessage(resp, t) ==
    Message(MODEL, resp.text, ToString(t) \o ModelSuffix,
            References(resp.groundingChunks), None)

\* the errorMessage of the catch block
ErrorMessage(t) ==
    Message(MODEL, Some(ErrorText), ToString(t) \o ErrorSuffix, None, None)

\* the try block without the else-throw of the image branch
TryThrows_NoImageTest(currentInput, resp) ==
    \/ resp.throws
    \/ IsImagePrompt(currentInput) /\ ~IsSome(resp.parts)

\* does the try block throw: the call rejects, the path to the parts is
\* missing (TypeError), or the image branch finds no image data
TryThrows(currentInput, resp) ==
    \/ resp.throws
    \/ /\ IsImagePrompt(currentInput)
       /\ \/ ~IsSome(resp.parts)
          \/ ~Truthy(ImageUrlOf(Value(resp.parts)))

\* the message of the try block when it does not throw
TryMessage(currentInput, resp, t) ==
    IF IsImagePrompt(currentInput)
    THEN ImageMessage(ImagePrompt(currentInput), ImageUrlOf(Value(resp.parts)), t)
    ELSE TextMessage(resp, t)

\* the messages the try block appends: its message, or none when it throws
TryAppends(currentInput, resp, t) ==
    IF TryThrows(currentInput, resp)
    THEN <<>>
    ELSE <<TryMessage(currentInput, resp, t)>>

\* a catch block that only logs
CatchAppends_LogOnly(currentInput, resp, t) == <<>>

\* the messages the catch block appends: the fallback when try threw
CatchAppends(currentInput, resp, t) ==
    IF TryThrows(currentInput, resp) THEN <<ErrorMessage(t)>> ELSE <<>>

\* the setMessages updaters of try and catch, applied in order
RECURSIVE AppendAll(_, _)
AppendAll(prev, ms) ==
    IF ms = <<>> THEN prev
    ELSE AppendAll(AppendMessage(prev, Head(ms)), Tail(ms))

\* the reset of the flag left out
FinallyLoading_NoReset(loading) == loading

\* finally { setIsLoading(false) }
FinallyLoading(loading) == FALSE

(***************************************************************************)
(* State.                                                                  *)
(*   messages, input, isLoading   the useState cells of App                *)
(*   mounted                      the mount effect has run                 *)
(*   pending                      the generateContent calls in flight,     *)
(*                                each with the currentInput its           *)
(*                                continuation closes over                 *)
(*   dispatched                   the number of generateContent calls made *)
(*   now                          the reading of Date.now()                *)
(*   event                        the last handler run and what it saw     *)
(***************************************************************************)
VARIABLES messages, input, isLoading, mounted, pending, dispatched, now, event

vars == <<messages, input, isLoading, mounted, pending, dispatched, now, event>>

\* the command token without its separating space
Bare == SubSeq(ImagineCommand, 1, Len(ImagineCommand) - 1)

\* the texts the user may type; a few of them: blank, text, command
BasicInputs ==
    {<<>>, <<"\t", " ">>,
     <<" ", "a", " ">>,
     <<" ">> \o ImagineCommand \o <<" ", "b", " ">>}

\* and more: the bare command, the command in another case, without and
\* with a second space
Inputs ==
    BasicInputs
    \cup {Bare, <<" ">> \o Bare \o <<"\n">>,
          <<"/", "I">> \o SubSeq(ImagineCommand, 3, Len(ImagineCommand)) \o <<"a">>,
          ImagineCommand \o <<"a">>}

Event(op, accepted, inp, loading, entry, resp) ==
    [op |-> op, accepted |-> accepted, input |-> inp, loading |-> loading,
     entry |-> entry, resp |-> resp]

Init ==
    /\ messages = <<>>
    /\ input = <<>>
    /\ isLoading = FALSE
    /\ mounted = FALSE
    /\ pending = <<>>
    /\ dispatched = 0
    /\ now = ClockStart
    /\ event = Event("init", FALSE, <<>>, FALSE, None, None)

\* useEffect(() => setMessages([greeting]), [])
Mount ==
    /\ ~mounted
    /\ mounted' = TRUE
    /\ messages' = <<Greeting>>
    /\ event' = Event("mount", FALSE, input, isLoading, None, None)
    /\ UNCHANGED <<input, isLoading, pending, dispatched, now>>

\* onChange={(e) => setInput(e.target.value)}
OnChange(s) ==
    /\ mounted
    /\ input' = s
    /\ event' = Event("change", FALSE, <<>>, FALSE, None, None)
    /\ UNCHANGED <<messages, isLoading, mounted, pending, dispatched, now>>

\* sendMessage up to its await: the early return, or the USER message, the
\* cleared input, the loading flag and the dispatched call; at most max
\* submissions are accepted
Send(max) ==
    /\ mounted
    /\ IF CanSend(input, isLoading)
       THEN /\ dispatched < max
            /\ messages' = AppendMessage(messages, UserMessage(input, now))
            /\ input' = ClearInput(input)
            /\ isLoading' = StartLoading(isLoading)
            /\ pending' = pending \o [k \in 1..Len(Calls(input)) |->
                                        [currentInput |-> input,
                                         req |-> Calls(input)[k]]]
            /\ dispatched' = dispatched + Len(Calls(input))
            /\ event' = Event("send", TRUE, input, isLoading,
                              Some([currentInput |-> input,
                                    req |-> Request(input)]), None)
       ELSE /\ event' = Event("send", FALSE, input, isLoading, None, None)
            /\ UNCHANGED <<messages, input, isLoading, pending, dispatched>>
    /\ UNCHANGED <<mounted, now>>

SendMessage == Send(MaxSubmits)

\* the pending calls without the i-th
Without(q, i) == SubSeq(q, 1, i - 1) \o SubSeq(q, i + 1, Len(q))

\* sendMessage from its await on: the i-th call in flight settles with
\* resp; try/catch appends one message and finally resets the flag
Settle(i, resp) ==
    /\ i \in 1..Len(pending)
    /\ messages' = AppendAll(messages,
                        TryAppends(pending[i].currentInput, resp, now)
                        \o CatchAppends(pending[i].currentInput, resp, now))
    /\ isLoading' = FinallyLoading(isLoading)
    /\ pending' = Without(pending, i)
    /\ event' = Event("settle", FALSE, pending[i].currentInput, isLoading,
                      Some(pending[i]), Some(resp))
    /\ UNCHANGED <<input, mounted, dispatched, now>>

SettleAny == \E i \in 1..Len(pending) : \E resp \in ResponsesTo(pending[i].req) : Settle(i, resp)

\* time passes: Date.now() never decreases
Tick ==
    /\ now < ClockStart + MaxClock
    /\ now' = now + 1
    /\ UNCHANGED <<messages, input, isLoading, mounted, pending, dispatched, event>>

\* the user types one of the basic inputs
Type == \E s \in BasicInputs : OnChange(s)

Next ==
    \/ Mount
    \/ Type
    \/ SendMessage
    \/ SettleAny
    \/ Tick

Spec == Init /\ [][Next]_vars

\* the provider call of a request in flight settles
LiveSpec == Spec /\ WF_vars(SettleAny)

(***************************************************************************)
(* The same program with every input, and with every shape of response.    *)
(***************************************************************************)
TypeAny == \E s \in Inputs : OnChange(s)

SendInput == Send(MaxInputSubmits)

InputNext ==
    \/ Mount
    \/ TypeAny
    \/ SendInput
    \/ SettleAny
    \/ Tick

InputSpec == Init /\ [][InputNext]_vars

SendNorm == Send(MaxNormSubmits)

SettleRich == \E i \in 1..Len(pending) : \E resp \in RichResponsesTo(pending[i].req) : Settle(i, resp)

NormNext ==
    \/ Mount
    \/ Type
    \/ SendNorm
    \/ SettleRich
    \/ Tick

NormSpec == Init /\ [][NormNext]_vars

(***************************************************************************)
(* Vocabulary of the properties.                                           *)
(***************************************************************************)
\* the step ran sendMessage (a rejected call repeated is a stutter)
SendStep == event'.op = "send" /\ event' # event

\* the step ran the continuation of a call in flight
SettleStep == event'.op = "settle" /\ Len(pending') = Len(pending) - 1

\* the number of MODEL messages
RECURSIVE CountAuthor(_, _)
CountAuthor(ms, a) ==
    IF ms = <<>> THEN 0
    ELSE (IF Head(ms).author = a THEN 1 ELSE 0) + CountAuthor(Tail(ms), a)

IDLE == ~isLoading

AWAITING_RESPONSE == isLoading

WhitespaceOnly(s) == \A i \in 1..Len(s) : IsWhitespace(s[i])

\* the fallback message, whatever its id
IsFallback(m) ==
    /\ m.author = MODEL
    /\ m.text = Some(ErrorText)
    /\ m.references = None
    /\ m.imageUrl = None

\* no part of the response carries inline image data
NoInlineData(resp) ==
    \/ ~IsSome(resp.parts)
    \/ \A i \in 1..Len(Value(resp.parts)) : ~IsSome(Value(resp.parts)[i].inlineData)

(***************************************************************************)
(* C1: at most one provider request is in flight, and a submit while       *)
(* AWAITING_RESPONSE changes neither the conversation nor the requests     *)
(* dispatched.                                                             *)
(***************************************************************************)
C1_SingleInFlight ==
    /\ [](Len(pending) <= 1)
    /\ [][(AWAITING_RESPONSE /\ SendStep)
            => UNCHANGED <<messages, pending, dispatched>>]_vars

\* a submit of non-blank text arrived while a request was in flight
C1_Witness ==
    /\ event.op = "send"
    /\ event.loading
    /\ ~WhitespaceOnly(event.input)
    /\ Len(pending) = 1

(***************************************************************************)
(* C2: after the greeting the number of MODEL messages grows by exactly    *)
(* one in a step that settles a request and by nothing in any other step,  *)
(* so every request that has settled has exactly one MODEL message.        *)
(***************************************************************************)
C2_OneModelMessagePerSettle ==
    /\ [](mounted => CountAuthor(messages, MODEL)
                        = 1 + dispatched - Len(pending))
    /\ [][mounted => CountAuthor(messages', MODEL) - CountAuthor(messages, MODEL)
                        = (IF Len(pending') < Len(pending) THEN 1 ELSE 0)]_vars

\* two submissions settled, one with the fallback and one with a reply
C2_Witness ==
    /\ pending = <<>>
    /\ dispatched = 2
    /\ \E i, j \in DOMAIN messages :
          /\ IsFallback(messages[i])
          /\ messages[j].author = MODEL /\ j > 1 /\ ~IsFallback(messages[j])

(***************************************************************************)
(* C3: when the call throws, or an image request yields no inline image    *)
(* data, the settling step appends exactly one message, the fallback       *)
(* (fallback text, no references, no imageUrl), and the state is IDLE.     *)
(***************************************************************************)
C3_FailureAppendsFallback ==
    [][(SettleStep /\ (Value(event'.resp).throws
                        \/ (Value(event'.entry).req.mode = "IMAGE"
                            /\ NoInlineData(Value(event'.resp)))))
         => /\ Len(messages') = Len(messages) + 1
            /\ SubSeq(messages', 1, Len(messages)) = messages
            /\ IsFallback(messages'[Len(messages')])
            /\ IDLE']_vars

\* an image request settled with parts none of which carries image data
C3_Witness ==
    /\ event.op = "settle"
    /\ Value(event.entry).req.mode = "IMAGE"
    /\ ~Value(event.resp).throws
    /\ IsSome(Value(event.resp).parts)
    /\ Value(Value(event.resp).parts) # <<>>
    /\ NoInlineData(Value(event.resp))
    /\ IsFallback(messages[Len(messages)])

(***************************************************************************)
(* C4: when the outstanding call settles, AWAITING_RESPONSE leads to IDLE. *)
(***************************************************************************)
C4_AwaitingLeadsToIdle == AWAITING_RESPONSE ~> IDLE

\* a request was in flight, it settled, and the state is IDLE again
C4_Witness ==
    /\ event.op = "settle"
    /\ event.loading
    /\ IDLE
    /\ dispatched < MaxSubmits

(***************************************************************************)
(* C5: after the greeting is seeded every step leaves the conversation     *)
(* unchanged or adds exactly one message at its end.                       *)
(***************************************************************************)
C5_AppendOnly ==
    [][mounted => \/ messages' = messages
                  \/ /\ Len(messages') = Len(messages) + 1
                     /\ SubSeq(messages', 1, Len(messages)) = messages]_vars

\* the conversation has grown by two full turns
C5_Witness == Len(messages) = 5 /\ messages[1] = Greeting

(***************************************************************************)
(* C6: no two messages of the conversation have the same id.               *)
(* Fails: the ids are readings of Date.now(), and two submissions (or two  *)
(* replies) within one millisecond get the same id.                        *)
(***************************************************************************)
C6_UniqueIds ==
    \A i, j \in DOMAIN messages : i # j => messages[i].id # messages[j].id

(***************************************************************************)
(* C7: a text response whose text is missing is a failure: the fallback    *)
(* is appended and no message without text is in the conversation.         *)
(* Fails: the text branch appends the message with text undefined.         *)
(***************************************************************************)
C7_MissingTextIsFailure ==
    /\ (/\ event.op = "settle"
        /\ Value(event.entry).req.mode = "TEXT"
        /\ ~Value(event.resp).throws
        /\ ~IsSome(Value(event.resp).text))
       => IsFallback(messages[Len(messages)])
    /\ \A i \in DOMAIN messages : IsSome(messages[i].text)

(***************************************************************************)
(* C8: when parts of an image response carry inline data, the message's    *)
(* imageUrl is the data URI of the FIRST such part, and it has no          *)
(* references.                                                             *)
(* Fails: the loop does not stop at the first part and keeps the last.     *)
(***************************************************************************)
FirstInline(parts) ==
    parts[CHOOSE i \in 1..Len(parts) :
            /\ IsSome(parts[i].inlineData)
            /\ \A k \in 1..(i - 1) : ~IsSome(parts[k].inlineData)]

C8_FirstInlinePart ==
    (/\ event.op = "settle"
     /\ Value(event.entry).req.mode = "IMAGE"
     /\ ~Value(event.resp).throws
     /\ ~NoInlineData(Value(event.resp)))
    => /\ messages[Len(messages)].imageUrl
            = Some(DataUriPrefix
                   \o Value(FirstInline(Value(Value(event.resp).parts)).inlineData))
       /\ messages[Len(messages)].references = None

(***************************************************************************)
(* C9: a submit of the bare command '/imagine', with or without            *)
(* surrounding white space, appends no USER message, dispatches no         *)
(* request and leaves the state flag alone.                                *)
(* Fails: the bare command is sent as a text request.                      *)
(***************************************************************************)
C9_BareCommandRejected ==
    [][(SendStep /\ Trim(input) = Bare)
         => UNCHANGED <<messages, pending, dispatched, isLoading>>]_vars

(***************************************************************************)
(* C9, amended: a submit of the bare command '/imagine', with or without   *)
(* surrounding white space, made in state IDLE is accepted as text: the    *)
(* USER message with the raw input is appended, exactly one request is     *)
(* dispatched, it is a TEXT request (never an IMAGE one) whose contents    *)
(* are the persona followed by the raw input, and the state is             *)
(* AWAITING_RESPONSE.                                                      *)
(***************************************************************************)
C9_BareCommandSentAsText ==
    [][(SendStep /\ Trim(input) = Bare /\ IDLE)
         => /\ Len(messages') = Len(messages) + 1
            /\ SubSeq(messages', 1, Len(messages)) = messages
            /\ messages'[Len(messages')].author = USER
            /\ messages'[Len(messages')].text = Some(input)
            /\ dispatched' = dispatched + 1
            /\ Len(pending') = Len(pending) + 1
            /\ pending'[Len(pending')].req.mode = "TEXT"
            /\ pending'[Len(pending')].req.contents = Persona \o input
            /\ AWAITING_RESPONSE']_vars

\* the bare command, surrounded by white space, was submitted and accepted
C9_Witness ==
    /\ event.op = "send"
    /\ event.accepted
    /\ event.input # Bare
    /\ Trim(event.input) = Bare
    /\ messages[Len(messages)].author = USER
    /\ Len(pending) = 1

(***************************************************************************)
(* C10: a submit of empty or white-space-only input changes nothing, in    *)
(* state IDLE and in state AWAITING_RESPONSE: no message, no request, the  *)
(* state flag as it was.                                                   *)
(***************************************************************************)
C10_BlankSubmitIsNoOp ==
    [][(SendStep /\ WhitespaceOnly(input))
         => UNCHANGED <<messages, pending, dispatched, isLoading>>]_vars

\* white space was submitted in state IDLE and nothing came of it
C10_Witness ==
    /\ event.op = "send"
    /\ ~event.accepted
    /\ event.input # <<>>
    /\ WhitespaceOnly(event.input)
    /\ ~event.loading
    /\ IDLE
    /\ pending = <<>>

(***************************************************************************)
(* C11: an accepted input whose trimmed text does not begin with           *)
(* '/imagine ' leads to a TEXT request whose contents are the persona      *)
(* followed by the TRIMMED input.                                          *)
(* Fails: the text branch interpolates currentInput as typed, with its     *)
(* leading and trailing white space.                                       *)
(***************************************************************************)
C11_TextPromptIsTrimmed ==
    \A k \in DOMAIN pending :
        ~StartsWith(Trim(pending[k].currentInput), ImagineCommand)
        => /\ pending[k].req.mode = "TEXT"
           /\ pending[k].req.contents = Persona \o Trim(pending[k].currentInput)

(***************************************************************************)
(* C12: an accepted input whose trimmed text is '/imagine ' followed by p  *)
(* (the prefix in lower case, with its space) leads to exactly one         *)
(* request, an IMAGE request with prompt p; when it settles with image     *)
(* data, the MODEL message's text is  Here is my take on: "p".             *)
(***************************************************************************)
\* the text after the command, for a trimmed input that starts with it
AfterCommand(inp) ==
    CHOOSE p \in {SubSeq(Trim(inp), k, Len(Trim(inp))) : k \in 1..(Len(Trim(inp)) + 1)} :
        Trim(inp) = ImagineCommand \o p

C12_CommandSentAsImage ==
    /\ [][(SendStep /\ IDLE /\ StartsWith(Trim(input), ImagineCommand))
            => /\ Len(pending') = Len(pending) + 1
               /\ dispatched' = dispatched + 1
               /\ pending'[Len(pending')].req.mode = "IMAGE"
               /\ pending'[Len(pending')].req.contents = AfterCommand(input)]_vars
    /\ [][(SettleStep
            /\ StartsWith(Trim(Value(event'.entry).currentInput), ImagineCommand)
            /\ ~Value(event'.resp).throws
            /\ ~NoInlineData(Value(event'.resp)))
            => messages'[Len(messages')].text
                 = Some(CaptionPrefix
                        \o AfterCommand(Value(event'.entry).currentInput)
                        \o CaptionSuffix)]_vars

\* a command typed with surrounding white space and two spaces before its
\* prompt was answered with an image
C12_Witness ==
    /\ event.op = "settle"
    /\ Value(event.entry).currentInput # Trim(Value(event.entry).currentInput)
    /\ Value(event.entry).req.mode = "IMAGE"
    /\ Value(event.entry).req.contents = <<" ", "b">>
    /\ IsSome(messages[Len(messages)].imageUrl)

(***************************************************************************)
(* C13: no message carries both references and an imageUrl.  The reply to  *)
(* an image request has an imageUrl and no references, the reply to a text *)
(* request has no imageUrl, and the fallback, the greeting and the USER    *)
(* messages have neither.                                                  *)
(***************************************************************************)
Plain(m) == m.references = None /\ m.imageUrl = None

\* the last settlement failed: the call threw, or an image request got no
\* image data
SettledWithFailure ==
    \/ Value(event.resp).throws
    \/ /\ Value(event.entry).req.mode = "IMAGE"
       /\ NoInlineData(Value(event.resp))

C13_ReferencesExcludeImage ==
    /\ \A i \in DOMAIN messages :
          /\ ~(IsSome(messages[i].references) /\ IsSome(messages[i].imageUrl))
          /\ messages[i].author = USER => Plain(messages[i])
          /\ i = 1 => Plain(messages[i])
    /\ event.op = "settle"
       => LET m == messages[Len(messages)] IN
          /\ SettledWithFailure => Plain(m)
          /\ (~SettledWithFailure /\ Value(event.entry).req.mode = "IMAGE")
                => IsSome(m.imageUrl) /\ m.references = None
          /\ (~SettledWithFailure /\ Value(event.entry).req.mode = "TEXT")
                => m.imageUrl = None

\* an image request was answered with an image
C13_Witness ==
    /\ event.op = "settle"
    /\ Value(event.entry).req.mode = "IMAGE"
    /\ IsSome(messages[Len(messages)].imageUrl)
    /\ messages[Len(messages) - 1].author = USER

(***************************************************************************)
(* C14: when a text response has a grounding chunk list, the references of *)
(* the MODEL message are the chunks that have a web with a non-empty uri   *)
(* and a non-empty title, as {uri, title}, in the order of the list; the   *)
(* other chunks are dropped.                                               *)
(***************************************************************************)
ValidChunk(c) ==
    /\ IsSome(c.web)
    /\ IsSome(Value(c.web).uri) /\ Value(Value(c.web).uri) # <<>>
    /\ IsSome(Value(c.web).title) /\ Value(Value(c.web).title) # <<>>

\* a text request settled with a response that has text fields
SettledText ==
    /\ event.op = "settle"
    /\ Value(event.entry).req.mode = "TEXT"
    /\ ~Value(event.resp).throws

C14_ReferencesAreValidChunks ==
    (SettledText /\ IsSome(Value(event.resp).groundingChunks))
    => LET valid == SelectSeq(Value(Value(event.resp).groundingChunks), ValidChunk)
       IN messages[Len(messages)].references
            = Some([k \in 1..Len(valid) |->
                      [uri |-> Value(valid[k].web).uri,
                       title |-> Value(valid[k].web).title]])

\* a list of two chunks, one of them without a title or uri, gave one
\* reference
C14_Witness ==
    /\ SettledText
    /\ IsSome(Value(event.resp).groundingChunks)
    /\ Len(Value(Value(event.resp).groundingChunks)) = 2
    /\ IsSome(Value(Value(event.resp).groundingChunks)[1].web)
    /\ ~ValidChunk(Value(Value(event.resp).groundingChunks)[1])
    /\ Len(Value(messages[Len(messages)].references)) = 1

(***************************************************************************)
(* C15: the references of the reply to a text request are undefined when   *)
(* the response has no grounding chunk list, and are the empty sequence    *)
(* (defined) when it has a list none of whose chunks is valid.             *)
(***************************************************************************)
C15_ReferencesPresenceTracksResponse ==
    SettledText
    => LET chunks == Value(event.resp).groundingChunks
           refs == messages[Len(messages)].references
       IN /\ ~IsSome(chunks) => refs = None
          /\ IsSome(chunks) => IsSome(refs)
          /\ (IsSome(chunks)
              /\ \A k \in 1..Len(Value(chunks)) : ~ValidChunk(Value(chunks)[k]))
             => refs = Some(<<>>)

\* a list of chunks none of which is valid gave references = []
C15_Witness ==
    /\ SettledText
    /\ IsSome(Value(event.resp).groundingChunks)
    /\ Value(Value(event.resp).groundingChunks) # <<>>
    /\ messages[Len(messages)].references = Some(<<>>)

(***************************************************************************)
(* C16: one provider request per accepted submission and no retry: the     *)
(* number of requests dispatched equals the number of USER messages, only  *)
(* a submit dispatches, one request at a time, and the settling of a       *)
(* request, failed or not, dispatches nothing.                             *)
(***************************************************************************)
C16_OneRequestPerSubmission ==
    /\ [](dispatched = CountAuthor(messages, USER))
    /\ [][/\ dispatched' # dispatched
             => SendStep /\ dispatched' = dispatched + 1
          /\ Len(pending') < Len(pending)
             => dispatched' = dispatched /\ Len(pending') = Len(pending) - 1]_vars

\* two submissions were accepted and the second request failed
C16_Witness ==
    /\ dispatched = 2
    /\ CountAuthor(messages, USER) = 2
    /\ event.op = "settle"
    /\ Value(event.resp).throws
    /\ pending = <<>>

(***************************************************************************)
(* C17: the step that accepts a submit appends the USER message with the   *)
(* text as typed, clears the input and enters AWAITING_RESPONSE, before    *)
(* the request settles: while a request is outstanding its USER message    *)
(* is the last message, and the reply is appended right after it.          *)
(***************************************************************************)
C17_UserMessageBeforeReply ==
    /\ [][(SendStep /\ IDLE /\ ~WhitespaceOnly(input))
            => /\ Len(messages') = Len(messages) + 1
               /\ SubSeq(messages', 1, Len(messages)) = messages
               /\ messages'[Len(messages')].author = USER
               /\ messages'[Len(messages')].text = Some(input)
               /\ input' = <<>>
               /\ AWAITING_RESPONSE'
               /\ Len(pending') = Len(pending) + 1]_vars
    /\ [](\A k \in DOMAIN pending :
            /\ messages[Len(messages)].author = USER
            /\ messages[Len(messages)].text = Some(pending[k].currentInput))
    /\ [][SettleStep
            => /\ messages[Len(messages)].author = USER
               /\ messages[Len(messages)].text
                    = Some(Value(event'.entry).currentInput)
               /\ Len(messages') = Len(messages) + 1
               /\ messages'[Len(messages)] = messages[Len(messages)]
               /\ messages'[Len(messages')].author = MODEL]_vars

\* a submit was accepted: the request is outstanding, the input is empty
\* and the USER message is there
C17_Witness ==
    /\ event.op = "send"
    /\ event.accepted
    /\ Len(pending) = 1
    /\ input = <<>>
    /\ AWAITING_RESPONSE
    /\ messages[Len(messages)].text = Some(event.input)

(***************************************************************************)
(* C18: the initial state is IDLE; whenever a submit can be accepted       *)
(* (non-blank input, IDLE) and whenever a USER message is appended, the    *)
(* conversation already starts with the greeting (MODEL, id                *)
(* 'initial-message'); and the first message never changes.                *)
(***************************************************************************)
StartsWithGreeting ==
    /\ messages # <<>>
    /\ messages[1].author = MODEL
    /\ messages[1].id = GreetingId
    /\ messages[1].text = Some(GreetingText)

C18_GreetingFirst ==
    /\ IDLE
    /\ []((~WhitespaceOnly(input) /\ IDLE) => StartsWithGreeting)
    /\ [](Len(messages) > 1 => StartsWithGreeting)
    /\ [][messages # <<>> => messages' # <<>> /\ messages'[1] = messages[1]]_vars

\* a full turn after the greeting
C18_Witness ==
    /\ StartsWithGreeting
    /\ Len(messages) >= 3
    /\ messages[2].author = USER
    /\ ~WhitespaceOnly(input)
    /\ IDLE

(***************************************************************************)
(* C19: after the greeting the messages alternate USER, MODEL, USER, ...,  *)
(* and the state is AWAITING_RESPONSE exactly when the last message is a   *)
(* USER message, IDLE exactly when it is a MODEL message (and IDLE before  *)
(* the greeting is there).                                                 *)
(***************************************************************************)
C19_FlagFollowsLastMessage ==
    /\ messages = <<>> => IDLE
    /\ messages # <<>>
       => /\ messages[1].author = MODEL
          /\ \A i \in 2..Len(messages) :
                messages[i].author = (IF i % 2 = 0 THEN USER ELSE MODEL)
          /\ AWAITING_RESPONSE <=> messages[Len(messages)].author = USER
          /\ IDLE <=> messages[Len(messages)].author = MODEL

\* the second submission is outstanding
C19_Witness ==
    /\ Len(messages) = 4
    /\ messages[4].author = USER
    /\ AWAITING_RESPONSE
    /\ Len(pending) = 1

(***************************************************************************)
(* C20: a rejected submit (blank input, or any input while                 *)
(* AWAITING_RESPONSE) changes nothing: the conversation, the state flag,   *)
(* the requests and the input buffer keep their values.                    *)
(***************************************************************************)
C20_RejectedSubmitChangesNothing ==
    [][(SendStep /\ (WhitespaceOnly(input) \/ AWAITING_RESPONSE))
         => UNCHANGED <<messages, isLoading, input, pending, dispatched>>]_vars

\* text typed while a request was in flight was submitted, dropped, and is
\* still in the input
C20_Witness ==
    /\ event.op = "send"
    /\ ~event.accepted
    /\ event.loading
    /\ ~WhitespaceOnly(event.input)
    /\ input = event.input
    /\ AWAITING_RESPONSE
    /\ Len(pending) = 1

=============================================================================
